---- MODULE Spec2Model ----
(***************************************************************************)
(* A model of the virtual file store of vfs.go: the content-addressed      *)
(* upload (VFS.HashUpload), the plain upload (VFS.Upload), VFS.Move and    *)
(* the two HTTP handlers with the record creation of VFS.createFile.       *)
(*                                                                         *)
(* Strings of the program (paths, hashes, namespaces, file names) are      *)
(* sequences of one-character strings, so that h[0], h[1:3], the joins and *)
(* the extension splitting are computed as the code computes them.         *)
(* File contents are sequences of bytes.                                   *)
(***************************************************************************)
EXTENDS Integers, Sequences, FiniteSets, TLC

\* ------------------------------------------------------------------ bounds
\* number of HashUpload calls issued directly against the API
NumCalls == 2
\* longest uploaded content, in bytes
MaxLen == 2
\* largest byte value of an uploaded content
MaxByte == 1
\* number of HTTP requests served, one after the other
MaxRequests == 1

\* number of files stored before the Move calls begin
MaxStored == 2

\* ------------------------------------------------------- program constants
\* hash.Sum(nil)[:16]: an MD5 digest has 16 bytes
DigestSize == 16
\* Config.MaxFileSize, the configured maximum of the declared size
MaxFileSize == 1

DefaultHashExtension == <<"j", "p", "g">>
NamespacePublic == <<>>
ErrInvalidNamespace == "invalid namespace"

\* Config.Path, the storage root, and Config.Namespaces, the allow-list
CfgPath == <<"/", "d">>
CfgNamespaces == << <<"n">> >>

\* -------------------------------------------------------------- the inputs
Bytes == 0..MaxByte
Contents == UNION { [1..n -> Bytes] : n \in 0..MaxLen }
\* the public namespace, a configured one and one that is not configured
NsInputs == { <<>>, <<"n">>, <<"x">> }
Calls == 1..NumCalls

\* ------------------------------------------------------------ pure helpers
HexDigits == <<"0","1","2","3","4","5","6","7","8","9","a","b","c","d","e","f">>
DecDigits == <<"0","1","2","3","4","5","6","7","8","9">>

\* strconv / %d: the decimal digits of a natural number
RECURSIVE Itoa(_)
Itoa(n) == IF n < 10 THEN <<DecDigits[n + 1]>>
           ELSE Itoa(n \div 10) \o <<DecDigits[(n % 10) + 1]>>

\* hex.EncodeToString: two lowercase hex digits per byte
RECURSIVE HexEncode(_)
HexEncode(bs) == IF bs = <<>> THEN <<>>
                 ELSE <<HexDigits[(Head(bs) \div 16) + 1], HexDigits[(Head(bs) % 16) + 1]>>
                      \o HexEncode(Tail(bs))

\* md5.New(): the initial state of the digest
Md5New == [i \in 1..DigestSize |-> (i * 17) % 256]

\* hash.Write of one byte: every byte of the digest state absorbs it.  A
\* stand-in for MD5's compression that keeps what the program relies on: the
\* digest is a deterministic function of the whole byte sequence, DigestSize
\* bytes wide, and distinct short contents have distinct digests.
Md5Write(acc, b) == [i \in 1..DigestSize |-> (acc[i] * (2 * i + 1) + b + 1) % 256]

RECURSIVE Md5WriteAll(_, _)
Md5WriteAll(acc, bs) == IF bs = <<>> THEN acc
                        ELSE Md5WriteAll(Md5Write(acc, Head(bs)), Tail(bs))

\* hex.EncodeToString(hash.Sum(nil)[:16])
Md5Hex(acc) == HexEncode(SubSeq(acc, 1, DigestSize))

\* the FileHash of a whole content
HashOf(B) == Md5Hex(Md5WriteAll(Md5New, B))

\* filepath.Join: the non-empty elements joined by the separator
RECURSIVE Join(_)
Join(elems) ==
    IF elems = <<>> THEN <<>>
    ELSE IF Head(elems) = <<>> THEN Join(Tail(elems))
    ELSE LET rest == Join(Tail(elems))
         IN  IF rest = <<>> THEN Head(elems) ELSE Head(elems) \o <<"/">> \o rest

\* the index of the last separator of a path, 0 when it has none
RECURSIVE LastSep(_, _)
LastSep(p, i) == IF i = 0 THEN 0 ELSE IF p[i] = "/" THEN i ELSE LastSep(p, i - 1)

\* filepath.Dir
Dir(p) == LET k == LastSep(p, Len(p))
          IN  IF k = 0 THEN <<".">> ELSE IF k = 1 THEN <<"/">> ELSE SubSeq(p, 1, k - 1)

\* the directories os.MkdirAll(d) makes sure exist: d and its ancestors
RECURSIVE Ancestors(_)
Ancestors(d) == IF Len(d) <= 1 \/ LastSep(d, Len(d)) = 0 THEN {d}
                ELSE {d} \cup Ancestors(Dir(d))

\* a Dir that slices the shard from the first character on: h[0:2]
HashDirShifted(h) == <<h[1]>> \o <<"/">> \o SubSeq(h, 1, 2)

\* FileHash.Dir and FileHash.File (indices are 1-based here)
HashDir(h) == <<h[1]>> \o <<"/">> \o SubSeq(h, 2, 3)
HashFile(h) == Join(<<HashDir(h), h>>) \o <<".">> \o DefaultHashExtension

\* VFS.Path, VFS.FullDir, VFS.FullFile
Path(ns, p) == Join(<<CfgPath, ns, p>>)
FullDir(ns, h) == Path(ns, HashDir(h))
FullFile(ns, h) == Path(ns, HashFile(h))

\* a validator that knows the public namespace only
IsValidNamespacePublicOnly(ns) == ns = NamespacePublic

\* a validator that lets every namespace through
IsValidNamespaceAny(ns) == ns = ns

\* VFS.IsValidNamespace
IsValidNamespace(ns) ==
    \/ ns = NamespacePublic
    \/ \E i \in 1..Len(CfgNamespaces) : CfgNamespaces[i] = ns

\* ------------------------------------------------------------------- state
VARIABLES
    fs,      \* the files of the storage volume: path -> [data, durable]
    dirs,    \* the directories of the storage volume
    calls,   \* the HashUpload calls: position and local variables of each
    cfg,     \* the part of Config that varies between deployments
    req,     \* the HTTP request being served: position and local variables
    repo,    \* the repository (db.VfsRepo): folders, last file ID, file records
    served,  \* the number of HTTP requests received so far
    mv       \* the VFS.Move call of the API: position and local variables

vars == <<fs, dirs, calls, cfg, req, repo, served, mv>>
httpVars == <<cfg, req, repo, served, mv>>

\* a file as os.Create / ioutil.TempFile leaves it: no bytes
EmptyFile == [data |-> <<>>, durable |-> <<>>]

Exists(f, p) == p \in DOMAIN f

\* a move that is a copy a reader can see half done: new holds all but the
\* last byte of old
RenameTorn(f, old, new) ==
    [p \in (DOMAIN f \ {old}) \cup {new} |->
        IF p = new THEN [data |-> SubSeq(f[old].data, 1, Len(f[old].data) - 1),
                         durable |-> <<>>]
        ELSE f[p]]

\* os.Rename(old, new) on the files: atomic, replaces new
Rename(f, old, new) ==
    [p \in (DOMAIN f \ {old}) \cup {new} |-> IF p = new THEN f[old] ELSE f[p]]

\* os.Remove(p)
Remove(f, p) == [q \in DOMAIN f \ {p} |-> f[q]]

\* os.Create(p) / a temp file created at p
Create(f, p) == [q \in DOMAIN f \cup {p} |-> IF q = p THEN EmptyFile ELSE f[q]]

\* a write of the bytes bs at the end of the file at p
WriteBytes(f, p, bs) == [f EXCEPT ![p].data = @ \o bs]

\* File.Sync: everything written so far becomes durable
Sync(f, p) == [f EXCEPT ![p].durable = f[p].data]

\* ------------------------------------------------------------- HashUpload
NoCall == [pc |-> "idle", B |-> <<>>, ns |-> <<>>, r |-> <<>>, hash |-> Md5New,
           tempFilename |-> <<>>, deleteTempFile |-> FALSE, err |-> "nil", fErr |-> "nil",
           fh |-> <<>>]

\* the name ioutil.TempFile(v.cfg.Path, "vfs") gives the k-th candidate: the
\* prefix and a decimal suffix, under the storage root
TempName(k) == Join(<<CfgPath, <<"v", "f", "s">> \o Itoa(k)>>)

\* TempFile creates the file with O_EXCL and tries another suffix while the
\* name is taken: the name it ends with is one no file has.  Suffixes are
\* interchangeable, so the first free one stands for the random one.
NextTempName(f) ==
    TempName(CHOOSE k \in 1..(NumCalls + MaxRequests) :
                /\ ~Exists(f, TempName(k))
                /\ \A j \in 1..(k - 1) : Exists(f, TempName(j)))

\* return "", e from the body: the deferred close runs next
Fail(c, e) == calls' = [calls EXCEPT ![c].fh = <<>>, ![c].err = e, ![c].pc = "close"]

\* a HashUpload whose digest starts from the namespace
HashUploadCallNsSeeded(c, B, ns) ==
    /\ calls[c].pc = "idle"
    /\ IF IsValidNamespace(ns)
       THEN calls' = [calls EXCEPT ![c] = [NoCall EXCEPT !.pc = "tempfile", !.B = B,
                                                         !.ns = ns, !.r = B,
                                                         !.hash = Md5Write(Md5New, Len(ns))]]
       ELSE calls' = [calls EXCEPT ![c] = [NoCall EXCEPT !.pc = "done", !.B = B, !.ns = ns,
                                                         !.r = B, !.err = ErrInvalidNamespace]]
    /\ UNCHANGED <<fs, dirs>>

\* a caller invokes HashUpload(r, ns): the namespace check
HashUploadCall(c, B, ns) ==
    /\ calls[c].pc = "idle"
    /\ IF IsValidNamespace(ns)
       THEN calls' = [calls EXCEPT ![c] = [NoCall EXCEPT !.pc = "tempfile", !.B = B,
                                                         !.ns = ns, !.r = B]]
       ELSE calls' = [calls EXCEPT ![c] = [NoCall EXCEPT !.pc = "done", !.B = B, !.ns = ns,
                                                         !.r = B, !.err = ErrInvalidNamespace]]
    /\ UNCHANGED <<fs, dirs>>

\* HashUpload called by a caller of the API: no HTTP request is involved
ApiHashUpload(c, B, ns) == HashUploadCall(c, B, ns) /\ UNCHANGED httpVars

\* ioutil.TempFile: a new, empty file under a name no file has
HUTempFile(c) ==
    /\ calls[c].pc = "tempfile"
    /\ \/ /\ calls' = [calls EXCEPT ![c].err = "temp file error", ![c].pc = "done"]
          /\ UNCHANGED fs
       \/ /\ fs' = Create(fs, NextTempName(fs))
          /\ calls' = [calls EXCEPT ![c].tempFilename = NextTempName(fs),
                                    ![c].deleteTempFile = TRUE, ![c].pc = "sync"]
    /\ UNCHANGED dirs
    /\ UNCHANGED httpVars

\* tf.Sync(), before the copy
HUSync(c) ==
    /\ calls[c].pc = "sync"
    /\ \/ /\ Fail(c, "sync error")
          /\ UNCHANGED fs
       \/ /\ fs' = Sync(fs, calls[c].tempFilename)
          /\ calls' = [calls EXCEPT ![c].pc = "copy"]
    /\ UNCHANGED dirs
    /\ UNCHANGED httpVars

\* a copy that feeds the digest but not the temp file
HUCopyHashOnly(c) ==
    /\ calls[c].pc = "copy"
    /\ IF calls[c].r = <<>>
       THEN calls' = [calls EXCEPT ![c].fh = Md5Hex(calls[c].hash), ![c].pc = "mkdir"]
       ELSE \/ Fail(c, "copy error")
            \/ calls' = [calls EXCEPT ![c].hash = Md5Write(@, Head(calls[c].r)),
                                      ![c].r = Tail(@)]
    /\ UNCHANGED <<fs, dirs, httpVars>>

\* io.Copy(io.MultiWriter(hash, tf), r), one byte at a time; at the end of the
\* input the hash is encoded
HUCopy(c) ==
    /\ calls[c].pc = "copy"
    /\ IF calls[c].r = <<>>
       THEN /\ calls' = [calls EXCEPT ![c].fh = Md5Hex(calls[c].hash), ![c].pc = "mkdir"]
            /\ UNCHANGED fs
       ELSE \/ /\ Fail(c, "copy error")
               /\ UNCHANGED fs
            \/ /\ fs' = WriteBytes(fs, calls[c].tempFilename, <<Head(calls[c].r)>>)
               /\ calls' = [calls EXCEPT ![c].hash = Md5Write(@, Head(calls[c].r)),
                                         ![c].r = Tail(@)]
    /\ UNCHANGED dirs
    /\ UNCHANGED httpVars

\* os.MkdirAll(v.FullDir(ns, fh))
HUMkdirAll(c) ==
    /\ calls[c].pc = "mkdir"
    /\ \/ /\ Fail(c, "mkdir error")
          /\ UNCHANGED dirs
       \/ /\ dirs' = dirs \cup Ancestors(FullDir(calls[c].ns, calls[c].fh))
          /\ calls' = [calls EXCEPT ![c].pc = "rename"]
    /\ UNCHANGED fs
    /\ UNCHANGED httpVars

\* a publish that copies the temp file to the destination and leaves it behind
HURenameKeepingTemp(c) ==
    /\ calls[c].pc = "rename"
    /\ \/ /\ Fail(c, "rename error")
          /\ UNCHANGED fs
       \/ /\ Exists(fs, calls[c].tempFilename)
          /\ fs' = [p \in DOMAIN fs \cup {FullFile(calls[c].ns, calls[c].fh)} |->
                      IF p = FullFile(calls[c].ns, calls[c].fh)
                      THEN fs[calls[c].tempFilename] ELSE fs[p]]
          /\ calls' = [calls EXCEPT ![c].deleteTempFile = FALSE, ![c].err = "nil",
                                    ![c].pc = "close"]
    /\ UNCHANGED <<dirs, httpVars>>

\* os.Rename(tempFilename, v.FullFile(ns, fh)); deleteTempFile = false; return fh, nil
HURename(c) ==
    /\ calls[c].pc = "rename"
    /\ \/ /\ Fail(c, "rename error")
          /\ UNCHANGED fs
       \/ /\ Exists(fs, calls[c].tempFilename)
          /\ Dir(FullFile(calls[c].ns, calls[c].fh)) \in dirs
          /\ fs' = Rename(fs, calls[c].tempFilename, FullFile(calls[c].ns, calls[c].fh))
          /\ calls' = [calls EXCEPT ![c].deleteTempFile = FALSE, ![c].err = "nil",
                                    ![c].pc = "close"]
    /\ UNCHANGED dirs
    /\ UNCHANGED httpVars

\* a cleanup whose own error replaces the error of the body
CleanupErrLastWins(err, fErr) == IF fErr # "nil" THEN fErr ELSE err

\* the error the deferred function leaves in err after a cleanup step whose
\* own error is fErr
CleanupErr(err, fErr) == IF err = "nil" /\ fErr # "nil" THEN fErr ELSE err

\* a deferred function that closes the file and never deletes it
HUCloseOnly(c) ==
    /\ calls[c].pc = "close"
    /\ \E fErr \in {"nil", "close error"} :
          calls' = [calls EXCEPT ![c].fErr = fErr,
                                ![c].err = CleanupErr(calls[c].err, fErr),
                                ![c].pc = "done"]
    /\ UNCHANGED <<fs, dirs, httpVars>>

\* the deferred function: tf.Close()
HUClose(c) ==
    /\ calls[c].pc = "close"
    /\ \E fErr \in {"nil", "close error"} :
          calls' = [calls EXCEPT
                      ![c].fErr = fErr,
                      ![c].err = CleanupErr(calls[c].err, fErr),
                      ![c].pc = IF calls[c].err = "nil" /\ fErr # "nil" THEN "done"
                                ELSE IF calls[c].deleteTempFile THEN "remove" ELSE "done"]
    /\ UNCHANGED <<fs, dirs>>
    /\ UNCHANGED httpVars

\* the deferred function: os.Remove(tempFilename)
HURemove(c) ==
    /\ calls[c].pc = "remove"
    /\ \/ /\ calls' = [calls EXCEPT ![c].fErr = "remove error",
                                    ![c].err = CleanupErr(calls[c].err, "remove error"),
                                    ![c].pc = "done"]
          /\ UNCHANGED fs
       \/ /\ Exists(fs, calls[c].tempFilename)
          /\ fs' = Remove(fs, calls[c].tempFilename)
          /\ calls' = [calls EXCEPT ![c].fErr = "nil", ![c].pc = "done"]
    /\ UNCHANGED dirs
    /\ UNCHANGED httpVars

\* ---------------------------------------------------------------- VFS.Move
\* before and dirsBefore keep the files and directories as they were when
\* Move was called, for the statements about what the call changed
NoMove == [pc |-> "idle", ns |-> <<>>, currentPath |-> <<>>, newPath |-> <<>>,
           err |-> "nil", before |-> <<>>, dirsBefore |-> {}]

\* the relative paths given to Move, and its namespaces; none of the paths
\* they make names a directory of another
MoveRelPaths == { <<"a">>, <<"b", "/", "a">>, <<"n", "/", "a">> }
MoveNs == { <<>>, <<"n">> }

\* the files Upload has stored before the moves: each was copied and synced.
\* Move never reads a file, so one byte a file is enough to tell them apart.
StoredFile(B) == [data |-> B, durable |-> B]
StoredPaths == { Path(ns, p) : ns \in MoveNs, p \in MoveRelPaths }
StoredTrees ==
    UNION { [S -> { StoredFile(<<b>>) : b \in Bytes }] :
              S \in { T \in SUBSET StoredPaths : Cardinality(T) <= MaxStored } }

\* the directories of a tree of files: the root, and what os.MkdirAll made
\* for each file
DirsOf(f) == {CfgPath} \cup UNION { Ancestors(Dir(p)) : p \in DOMAIN f }

\* a caller invokes Move(ns, currentPath, newPath): the two filepath.Join
MoveCall(ns, currentPath, newPath) ==
    /\ mv.pc \in {"idle", "done"}
    /\ mv' = [NoMove EXCEPT !.pc = "mkdir", !.ns = ns,
                            !.currentPath = Path(ns, currentPath),
                            !.newPath = Path(ns, newPath),
                            !.before = fs, !.dirsBefore = dirs]
    /\ UNCHANGED <<fs, dirs, calls, cfg, req, repo, served>>

\* Move: os.MkdirAll(filepath.Dir(newPath))
MoveMkdirAll ==
    /\ mv.pc = "mkdir"
    /\ \/ /\ mv' = [mv EXCEPT !.err = "mkdir error", !.pc = "done"]
          /\ UNCHANGED dirs
       \/ /\ dirs' = dirs \cup Ancestors(Dir(mv.newPath))
          /\ mv' = [mv EXCEPT !.pc = "rename"]
    /\ UNCHANGED <<fs, calls, cfg, req, repo, served>>

\* a move that copies the file to the new path and leaves it at the old one
MoveRenameCopying ==
    /\ mv.pc = "rename"
    /\ \/ /\ mv' = [mv EXCEPT !.err = "rename error", !.pc = "done"]
          /\ UNCHANGED fs
       \/ /\ Exists(fs, mv.currentPath)
          /\ fs' = [p \in DOMAIN fs \cup {mv.newPath} |->
                      IF p = mv.newPath THEN fs[mv.currentPath] ELSE fs[p]]
          /\ mv' = [mv EXCEPT !.pc = "done"]
    /\ UNCHANGED <<dirs, calls, cfg, req, repo, served>>

\* Move: return os.Rename(currentPath, newPath), which fails when there is
\* no file at currentPath
MoveRename ==
    /\ mv.pc = "rename"
    /\ \/ /\ mv' = [mv EXCEPT !.err = "rename error", !.pc = "done"]
          /\ UNCHANGED fs
       \/ /\ Exists(fs, mv.currentPath)
          /\ Dir(mv.newPath) \in dirs
          /\ fs' = Rename(fs, mv.currentPath, mv.newPath)
          /\ mv' = [mv EXCEPT !.pc = "done"]
    /\ UNCHANGED <<dirs, calls, cfg, req, repo, served>>

\* ------------------------------------------------------ the HTTP handlers
NoResponse == [Code |-> 0, Error |-> "", Hash |-> <<>>, WebPath |-> <<>>, FileID |-> 0,
               Extension |-> <<>>, Name |-> <<>>]

NoRequest == [pc |-> "idle", handler |-> "", Method |-> "", ns |-> <<>>, Body |-> <<>>,
              ContentLength |-> 0, form |-> "", Filename |-> <<>>, folderId |-> <<>>,
              fl |-> 0, tempFile |-> <<>>, rd |-> <<>>, fileSize |-> 0,
              ext |-> <<>>, name |-> <<>>, ur |-> NoResponse,
              params |-> <<>>, mType |-> "", fsize |-> 0, id |-> 0, path |-> <<>>]

\* the repository before any request: one folder, no file record
EmptyRepo == [folders |-> {1}, lastID |-> 0, files |-> {}]

\* repo.VfsFolderByID: the folder of that identifier, 0 (nil) when there is none
VfsFolderByID(rp, id) == IF id \in rp.folders THEN id ELSE 0

\* repo.NextFileID: the next sequential identifier, and the repository after
\* its allocation
NextFileID(rp) == rp.lastID + 1
AllocateFileID(rp) == [rp EXCEPT !.lastID = @ + 1]

\* repo.AddVfsFile: the repository with the record inserted
AddVfsFile(rp, file) == [rp EXCEPT !.files = @ \cup {file}]

StatusOK == 200
StatusBadRequest == 400
StatusRequestEntityTooLarge == 413
StatusInternalServerError == 500

\* the letters randSeq draws from (two of the 36), and randSeq(n): n draws,
\* here all the same letter
RandLetters == {"a", "b"}
RandSeq(n) == { [i \in 1..n |-> l] : l \in RandLetters }

\* time.Now().Format("200601")
YearMonths == { <<"2","0","2","6","1","1">>, <<"2","0","2","6","1","2">> }

\* the file names of a multipart upload, as the client gives them
Filenames == { <<"a", ".", "p", "n", "g">>, <<"b">> }

\* the folderId form values: the existing folder, an unknown one, not a number
FolderIds == { <<"1">>, <<"2">>, <<"x">> }

\* strconv.Atoi on the form values above: -1 stands for the error
RECURSIVE AtoiFrom(_, _)
AtoiFrom(str, acc) ==
    IF str = <<>> THEN acc
    ELSE LET d == { k \in 0..9 : DecDigits[k + 1] = Head(str) }
         IN  IF d = {} THEN -1 ELSE AtoiFrom(Tail(str), acc * 10 + (CHOOSE k \in d : TRUE))
Atoi(str) == IF str = <<>> THEN -1 ELSE AtoiFrom(str, 0)

\* the index of the last dot of a file name, 0 when it has none
RECURSIVE LastDot(_, _)
LastDot(n, i) == IF i = 0 THEN 0 ELSE IF n[i] = "." THEN i ELSE LastDot(n, i - 1)

\* filepath.Ext: the suffix that starts at the last dot
Ext(n) == LET k == LastDot(n, Len(n)) IN IF k = 0 THEN <<>> ELSE SubSeq(n, k, Len(n))

\* strings.TrimPrefix(s, ".") and strings.TrimSuffix(s, suffix)
TrimDot(str) == IF str # <<>> /\ Head(str) = "." THEN Tail(str) ELSE str
TrimSuffix(str, suf) ==
    IF Len(suf) <= Len(str) /\ SubSeq(str, Len(str) - Len(suf) + 1, Len(str)) = suf
    THEN SubSeq(str, 1, Len(str) - Len(suf)) ELSE str

\* the multipart bodies of a POST: one that does not parse, one without the
\* form file, and those with a form file of some name and content
MultipartForms ==
    { [form |-> f, filename |-> <<>>, body |-> <<>>] : f \in {"malformed", "no file"} }
    \cup { [form |-> "ok", filename |-> n, body |-> b] : n \in Filenames, b \in Contents }

\* the declared sizes of a PUT: unknown (-1), or any length up to MaxLen
ContentLengths == (-1)..MaxLen

\* a request arrives at HashUploadHandler ("hash") or at the handler that
\* UploadHandler returns ("folder"); requests are served one after the other
Receive(handler, method, ns, body, length, form, filename, folderId) ==
    /\ req.pc \in {"idle", "done"}
    /\ served < MaxRequests
    /\ served' = served + 1
    /\ req' = [NoRequest EXCEPT !.pc = IF handler = "hash" THEN "uploadFile" ELSE "folder",
                                !.handler = handler, !.Method = method, !.ns = ns,
                                !.Body = body, !.ContentLength = length, !.form = form,
                                !.Filename = filename, !.folderId = folderId]
    /\ UNCHANGED <<fs, dirs, calls, cfg, repo, mv>>

\* writeHashUploadResponse / http.Error: the request ends with the response
\* ur, and its local variables are gone
Respond(ur) == req' = [NoRequest EXCEPT !.ur = ur, !.pc = "done"]

\* an UploadHandler without the check of a nil folder
UploadHandlerFolderUnchecked ==
    /\ req.pc = "folder"
    /\ IF Atoi(req.folderId) = -1
       THEN Respond([NoResponse EXCEPT !.Code = StatusBadRequest, !.Error = "bad folder"])
       ELSE \/ Respond([NoResponse EXCEPT !.Code = StatusInternalServerError,
                                          !.Error = "lookup error"])
            \/ \E suffix \in RandSeq(16) :
                  req' = [req EXCEPT !.fl = VfsFolderByID(repo, Atoi(req.folderId)),
                                     !.tempFile = <<"t", "e", "m", "p">> \o suffix,
                                     !.pc = "uploadFile"]
    /\ UNCHANGED <<fs, dirs, calls, cfg, repo, served, mv>>

\* UploadHandler up to the upload: strconv.Atoi, repo.VfsFolderByID, the temp name
UploadHandlerFolder ==
    /\ req.pc = "folder"
    /\ IF Atoi(req.folderId) = -1
       THEN Respond([NoResponse EXCEPT !.Code = StatusBadRequest, !.Error = "bad folder"])
       ELSE \/ Respond([NoResponse EXCEPT !.Code = StatusInternalServerError,
                                          !.Error = "lookup error"])
            \/ /\ VfsFolderByID(repo, Atoi(req.folderId)) = 0
               /\ Respond([NoResponse EXCEPT !.Code = StatusInternalServerError,
                                             !.Error = "not found"])
            \/ /\ VfsFolderByID(repo, Atoi(req.folderId)) # 0
               /\ \E suffix \in RandSeq(16) :
                     req' = [req EXCEPT !.fl = VfsFolderByID(repo, Atoi(req.folderId)),
                                        !.tempFile = <<"t", "e", "m", "p">> \o suffix,
                                        !.pc = "uploadFile"]
    /\ UNCHANGED <<fs, dirs, calls, cfg, repo, served, mv>>

\* an uploadFile that never compares fileSize with MaxFileSize
UploadFileRequestUnchecked ==
    /\ req.pc = "uploadFile"
    /\ LET next == IF req.tempFile # <<>> THEN "upload" ELSE "hashUpload"
       IN  IF req.Method = "PUT"
           THEN req' = [req EXCEPT !.rd = req.Body, !.fileSize = req.ContentLength,
                                   !.pc = next]
           ELSE IF req.form = "malformed"
           THEN Respond([NoResponse EXCEPT !.Code = StatusInternalServerError,
                                           !.Error = "parse error"])
           ELSE IF req.form = "no file"
           THEN Respond([NoResponse EXCEPT !.Code = StatusBadRequest,
                                           !.Error = "no such file"])
           ELSE req' = [req EXCEPT
                          !.rd = req.Body, !.fileSize = Len(req.Body),
                          !.ext = TrimDot(Ext(req.Filename)),
                          !.name = TrimSuffix(req.Filename, Ext(req.Filename)),
                          !.pc = next]
    /\ UNCHANGED <<fs, dirs, calls, cfg, repo, served, mv>>

\* uploadFile up to the size check: PUT or POST, then fileSize > MaxFileSize
UploadFileRequest ==
    /\ req.pc = "uploadFile"
    /\ LET next == IF req.tempFile # <<>> THEN "upload" ELSE "hashUpload"
           tooLarge == [NoResponse EXCEPT !.Code = StatusRequestEntityTooLarge,
                                          !.Error = "file size exceed"]
       IN  IF req.Method = "PUT"
           THEN IF req.ContentLength > MaxFileSize
                THEN Respond(tooLarge)
                ELSE req' = [req EXCEPT !.rd = req.Body, !.fileSize = req.ContentLength,
                                        !.pc = next]
           ELSE IF req.form = "malformed"
           THEN Respond([NoResponse EXCEPT !.Code = StatusInternalServerError,
                                           !.Error = "parse error"])
           ELSE IF req.form = "no file"
           THEN Respond([NoResponse EXCEPT !.Code = StatusBadRequest,
                                           !.Error = "no such file"])
           ELSE IF Len(req.Body) > MaxFileSize
                THEN Respond(tooLarge)
                ELSE req' = [req EXCEPT
                               !.rd = req.Body, !.fileSize = Len(req.Body),
                               !.ext = TrimDot(Ext(req.Filename)),
                               !.name = TrimSuffix(req.Filename, Ext(req.Filename)),
                               !.pc = next]
    /\ UNCHANGED <<fs, dirs, calls, cfg, repo, served, mv>>

\* uploadFile's answer to an error of Upload or HashUpload
UploadError(e) == [NoResponse EXCEPT !.Code = StatusBadRequest, !.Error = e]

\* VFS.Upload: os.MkdirAll of the directory of the file
UploadMkdirAll ==
    /\ req.pc = "upload"
    /\ \/ /\ Respond(UploadError("mkdir error"))
          /\ UNCHANGED dirs
       \/ /\ dirs' = dirs \cup Ancestors(Dir(Path(req.ns, req.tempFile)))
          /\ req' = [req EXCEPT !.pc = "uploadCreate"]
    /\ UNCHANGED <<fs, calls, cfg, repo, served, mv>>

\* VFS.Upload: os.Create, which truncates a file that exists
UploadCreate ==
    /\ req.pc = "uploadCreate"
    /\ \/ /\ Respond(UploadError("create error"))
          /\ UNCHANGED fs
       \/ /\ fs' = Create(fs, Path(req.ns, req.tempFile))
          /\ req' = [req EXCEPT !.pc = "uploadCopy"]
    /\ UNCHANGED <<dirs, calls, cfg, repo, served, mv>>

\* VFS.Upload: io.Copy(f, r), one byte at a time
UploadCopy ==
    /\ req.pc = "uploadCopy"
    /\ IF req.rd = <<>>
       THEN /\ req' = [req EXCEPT !.pc = "uploadSync"]
            /\ UNCHANGED fs
       ELSE \/ /\ Respond(UploadError("copy error"))
               /\ UNCHANGED fs
            \/ /\ fs' = WriteBytes(fs, Path(req.ns, req.tempFile), <<Head(req.rd)>>)
               /\ req' = [req EXCEPT !.rd = Tail(@)]
    /\ UNCHANGED <<dirs, calls, cfg, repo, served, mv>>

\* VFS.Upload: return f.Sync(); uploadFile answers 200 with ext and name
UploadSync ==
    /\ req.pc = "uploadSync"
    /\ \/ /\ Respond(UploadError("sync error"))
          /\ UNCHANGED fs
       \/ /\ fs' = Sync(fs, Path(req.ns, req.tempFile))
          /\ req' = [req EXCEPT !.ur = [NoResponse EXCEPT !.Code = StatusOK,
                                                           !.Extension = req.ext,
                                                           !.Name = req.name],
                                 !.pc = "createFile"]
    /\ UNCHANGED <<dirs, calls, cfg, repo, served, mv>>

\* path.Join(v.cfg.WebPath, ns, h.File())
CfgWebPath == <<"/", "w">>
WebHashPath(ns, h) == Join(<<CfgWebPath, ns, HashFile(h)>>)

\* uploadFile calls v.HashUpload(rd, ns); the call is number 1
UploadFileHashUpload ==
    /\ req.pc = "hashUpload"
    /\ HashUploadCall(1, req.rd, req.ns)
    /\ req' = [req EXCEPT !.pc = "hashUploadWait"]
    /\ UNCHANGED <<cfg, repo, served, mv>>

\* HashUpload has returned: uploadFile answers 400 on an error, else 200
UploadFileHashReturn ==
    /\ req.pc = "hashUploadWait"
    /\ calls[1].pc = "done"
    /\ Respond(IF calls[1].err # "nil" THEN UploadError(calls[1].err)
               ELSE [NoResponse EXCEPT !.Code = StatusOK, !.Hash = calls[1].fh,
                                       !.WebPath = WebHashPath(req.ns, calls[1].fh)])
    /\ calls' = [calls EXCEPT ![1] = NoCall]
    /\ UNCHANGED <<fs, dirs, cfg, repo, served, mv>>

\* createFile's error return, as UploadHandler answers it
CreateFileError(e) == [req.ur EXCEPT !.Code = StatusInternalServerError, !.Error = e]

\* a createFile that takes the size from the declared size of the request
CreateFileMetadataDeclared ==
    /\ req.pc = "createFile"
    /\ \/ req' = [req EXCEPT !.pc = "nextFileID"]
       \/ /\ Exists(fs, Path(req.ns, req.tempFile))
          /\ \E params \in {<<>>, <<1, 1>>}, statOK \in BOOLEAN,
                mType \in {"", "application/octet-stream"} :
                req' = [req EXCEPT
                          !.params = params,
                          !.fsize = IF statOK /\ req.fileSize > 0 THEN req.fileSize ELSE 0,
                          !.mType = mType,
                          !.pc = "nextFileID"]
    /\ UNCHANGED <<fs, dirs, calls, cfg, repo, served, mv>>

\* createFile, the metadata: os.Open of the file at the temp path, then
\* image.DecodeConfig, reader.Stat and mimetype.DetectReader; a failure of
\* any of them leaves its value at the zero value
CreateFileMetadata ==
    /\ req.pc = "createFile"
    /\ \/ req' = [req EXCEPT !.pc = "nextFileID"]
       \/ /\ Exists(fs, Path(req.ns, req.tempFile))
          /\ \E params \in {<<>>, <<1, 1>>}, statOK \in BOOLEAN,
                mType \in {"", "application/octet-stream"} :
                req' = [req EXCEPT
                          !.params = params,
                          !.fsize = IF statOK THEN Len(fs[Path(req.ns, req.tempFile)].data)
                                    ELSE 0,
                          !.mType = mType,
                          !.pc = "nextFileID"]
    /\ UNCHANGED <<fs, dirs, calls, cfg, repo, served, mv>>

\* a createFile that deletes the uploaded file when no identifier is given
CreateFileNextFileIDCleaning ==
    /\ req.pc = "nextFileID"
    /\ \/ /\ Respond(CreateFileError("next id error"))
          /\ fs' = Remove(fs, Path(req.ns, req.tempFile))
          /\ UNCHANGED repo
       \/ /\ repo' = AllocateFileID(repo)
          /\ req' = [req EXCEPT !.id = NextFileID(repo), !.pc = "move"]
          /\ UNCHANGED fs
    /\ UNCHANGED <<dirs, calls, cfg, served, mv>>

\* createFile: repo.NextFileID()
CreateFileNextFileID ==
    /\ req.pc = "nextFileID"
    /\ \/ /\ Respond(CreateFileError("next id error"))
          /\ UNCHANGED repo
       \/ /\ repo' = AllocateFileID(repo)
          /\ req' = [req EXCEPT !.id = NextFileID(repo), !.pc = "move"]
    /\ UNCHANGED <<fs, dirs, calls, cfg, served, mv>>

\* fmt.Sprintf("%d_%d%s.%s", folder.ID, id, salt, ext)
FileName(folderID, id, salt, ext) ==
    Itoa(folderID) \o <<"_">> \o Itoa(id) \o salt \o <<".">> \o ext

\* the salts of a file name: "_" + randSeq(8) when SaltedFilenames is set
Salts == IF cfg.SaltedFilenames THEN { <<"_">> \o x : x \in RandSeq(8) } ELSE { <<>> }

\* a createFile that composes the final path and goes on to the insert
\* without moving the file
CreateFileMoveSkipped ==
    /\ req.pc = "move"
    /\ \E salt \in Salts, curYearMonth \in YearMonths :
         req' = [req EXCEPT
                   !.path = Join(<<curYearMonth, FileName(req.fl, req.id, salt, req.ext)>>),
                   !.pc = "addVfsFile"]
    /\ UNCHANGED <<fs, dirs, calls, cfg, repo, served, mv>>

\* createFile: the salt, the file name, the month, then v.Move(ns, relFilename,
\* filepath.Join(curYearMonth, filename)): os.MkdirAll and os.Rename
CreateFileMove ==
    /\ req.pc = "move"
    /\ \E salt \in Salts, curYearMonth \in YearMonths :
         LET newRel == Join(<<curYearMonth, FileName(req.fl, req.id, salt, req.ext)>>)
             currentPath == Path(req.ns, req.tempFile)
             newPath == Path(req.ns, newRel)
         IN  \/ /\ Respond(CreateFileError("mkdir error"))
                /\ UNCHANGED <<fs, dirs>>
             \/ /\ Respond(CreateFileError("rename error"))
                /\ dirs' = dirs \cup Ancestors(Dir(newPath))
                /\ UNCHANGED fs
             \/ /\ Exists(fs, currentPath)
                /\ dirs' = dirs \cup Ancestors(Dir(newPath))
                /\ fs' = Rename(fs, currentPath, newPath)
                /\ req' = [req EXCEPT !.path = newRel, !.pc = "addVfsFile"]
    /\ UNCHANGED <<calls, cfg, repo, served, mv>>

\* the db.VfsFile createFile builds
VfsFile(r) == [ID |-> r.id, FolderID |-> r.fl, Title |-> r.name, Path |-> r.path,
               Params |-> r.params, MimeType |-> r.mType, FileSize |-> r.fsize,
               FileExists |-> TRUE, StatusID |-> "enabled"]

\* a createFile that deletes the moved file when the insert fails
CreateFileAddVfsFileRollback ==
    /\ req.pc = "addVfsFile"
    /\ \/ /\ Respond(CreateFileError("insert error"))
          /\ fs' = Remove(fs, Path(req.ns, req.path))
          /\ UNCHANGED repo
       \/ /\ repo' = AddVfsFile(repo, VfsFile(req))
          /\ Respond([req.ur EXCEPT !.FileID = req.id])
          /\ UNCHANGED fs
    /\ UNCHANGED <<dirs, calls, cfg, served, mv>>

\* createFile: repo.AddVfsFile; UploadHandler puts the ID in the response
CreateFileAddVfsFile ==
    /\ req.pc = "addVfsFile"
    /\ \/ /\ Respond(CreateFileError("insert error"))
          /\ UNCHANGED repo
       \/ /\ repo' = AddVfsFile(repo, VfsFile(req))
          /\ Respond([req.ur EXCEPT !.FileID = req.id])
    /\ UNCHANGED <<fs, dirs, calls, cfg, served, mv>>

\* ------------------------------------ concurrent HashUpload calls (the API)
Init ==
    /\ fs = <<>>
    /\ dirs = {CfgPath}
    /\ calls = [c \in Calls |-> NoCall]
    /\ cfg = [SaltedFilenames |-> FALSE]
    /\ req = NoRequest
    /\ repo = EmptyRepo
    /\ served = 0
    /\ mv = NoMove

\* calls are issued in the order of their numbers (they are interchangeable)
Next ==
    \E c \in Calls :
        \/ /\ IF c = 1 THEN TRUE ELSE calls[c - 1].pc # "idle"
           /\ \E B \in Contents, ns \in NsInputs : ApiHashUpload(c, B, ns)
        \/ HUTempFile(c)
        \/ HUSync(c)
        \/ HUCopy(c)
        \/ HUMkdirAll(c)
        \/ HURename(c)
        \/ HUClose(c)
        \/ HURemove(c)

Spec == Init /\ [][Next]_vars

\* ---------------------------------- HTTP requests, served one after another
InitHttp ==
    /\ fs = <<>>
    /\ dirs = {CfgPath}
    /\ calls = [c \in Calls |-> NoCall]
    /\ cfg \in { [SaltedFilenames |-> b] : b \in BOOLEAN }
    /\ req = NoRequest
    /\ repo = EmptyRepo
    /\ served = 0
    /\ mv = NoMove

NextHttp ==
    \/ \E ns \in NsInputs, body \in Contents, length \in ContentLengths :
          \/ Receive("hash", "PUT", ns, body, length, "", <<>>, <<>>)
          \/ \E folderId \in FolderIds :
                Receive("folder", "PUT", ns, body, length, "", <<>>, folderId)
    \/ \E ns \in NsInputs, part \in MultipartForms :
          \/ Receive("hash", "POST", ns, part.body, -1, part.form, part.filename, <<>>)
          \/ \E folderId \in FolderIds :
                Receive("folder", "POST", ns, part.body, -1, part.form, part.filename,
                        folderId)
    \/ UploadHandlerFolder
    \/ UploadFileRequest
    \/ UploadMkdirAll
    \/ UploadCreate
    \/ UploadCopy
    \/ UploadSync
    \/ UploadFileHashUpload
    \/ HUTempFile(1)
    \/ HUSync(1)
    \/ HUCopy(1)
    \/ HUMkdirAll(1)
    \/ HURename(1)
    \/ HUClose(1)
    \/ HURemove(1)
    \/ UploadFileHashReturn
    \/ CreateFileMetadata
    \/ CreateFileNextFileID
    \/ CreateFileMove
    \/ CreateFileAddVfsFile

SpecHttp == InitHttp /\ [][NextHttp]_vars

\* ------------------------------- Move calls on a tree of stored files (API)
InitMove ==
    /\ fs \in StoredTrees
    /\ dirs = DirsOf(fs)
    /\ calls = [c \in Calls |-> NoCall]
    /\ cfg = [SaltedFilenames |-> FALSE]
    /\ req = NoRequest
    /\ repo = EmptyRepo
    /\ served = 0
    /\ mv = NoMove

NextMove ==
    \/ \E ns \in MoveNs, currentPath \in MoveRelPaths, newPath \in MoveRelPaths :
          MoveCall(ns, currentPath, newPath)
    \/ MoveMkdirAll
    \/ MoveRename

SpecMove == InitMove /\ [][NextMove]_vars

\* ----------------------------------------------------------- the properties
\* the content-addressed path of every content, in every namespace
HashPaths ==
    { [ns |-> ns, B |-> B, h |-> HashOf(B), path |-> FullFile(ns, HashOf(B))] :
        ns \in NsInputs, B \in Contents }

\* the errors of the body of HashUpload once the temp file exists
BodyErrors == {"sync error", "copy error", "mkdir error", "rename error"}

\* a namespace that is neither the public one nor in the configured list
InvalidNamespace(ns) ==
    /\ ns # NamespacePublic
    /\ \A i \in 1..Len(CfgNamespaces) : CfgNamespaces[i] # ns

\* C1: under every interleaving of HashUpload calls, in every state the file at
\* a content-addressed path FullFile(ns, h) is absent or holds the whole of a
\* content whose hash is h, which some call was given: no reader sees a
\* partly written file there.
C1_NoPartialFileAtHashPath ==
    \A e \in HashPaths :
        Exists(fs, e.path) =>
            /\ fs[e.path].data = e.B
            /\ \E c \in Calls : calls[c].B = e.B /\ calls[c].ns = e.ns

\* a call is in the middle of its copy, its temp file holding a proper,
\* non-empty prefix, while the path of its content is already published
C1_Witness ==
    \E c \in Calls :
        /\ calls[c].pc = "copy"
        /\ calls[c].r # <<>>
        /\ fs[calls[c].tempFilename].data # <<>>
        /\ Exists(fs, FullFile(calls[c].ns, HashOf(calls[c].B)))

\* C2: when HashUpload renames the temp file onto the destination, every byte
\* copied into it has been synced: the Sync before the rename comes after the
\* last write.
C2_SyncedBeforeRename ==
    \A c \in Calls :
        calls[c].pc = "rename" =>
            fs[calls[c].tempFilename].durable = fs[calls[c].tempFilename].data

\* C3: a HashUpload(B, ns) that returned without error returned hash(B), and
\* from then on the file at FullFile(ns, hash(B)) holds exactly B.
C3_RoundTrip ==
    \A c \in Calls :
        (calls[c].pc = "done" /\ calls[c].err = "nil") =>
            /\ calls[c].fh = HashOf(calls[c].B)
            /\ Exists(fs, FullFile(calls[c].ns, calls[c].fh))
            /\ fs[FullFile(calls[c].ns, calls[c].fh)].data = calls[c].B

\* a call of a content of the greatest length has returned without error
C3_Witness ==
    \E c \in Calls :
        calls[c].pc = "done" /\ calls[c].err = "nil" /\ Len(calls[c].B) = MaxLen

\* all the calls were given the content and the namespace of call 1, and all
\* have returned without error
AllSameAndDone ==
    \A c \in Calls :
        /\ calls[c].pc = "done"
        /\ calls[c].err = "nil"
        /\ calls[c].B = calls[1].B
        /\ calls[c].ns = calls[1].ns

\* C4: when all the concurrent calls were given the same content and
\* namespace and none met an I/O failure, they all return the same hash and,
\* once all have returned, the storage holds exactly one file, at the path of
\* that hash, with the whole content; no temp file is left.
C4_IdenticalUploads ==
    AllSameAndDone =>
        /\ \A c \in Calls : calls[c].fh = calls[1].fh
        /\ DOMAIN fs = {FullFile(calls[1].ns, calls[1].fh)}
        /\ fs[FullFile(calls[1].ns, calls[1].fh)].data = calls[1].B

\* all the calls uploaded the same non-empty content and have returned
C4_Witness == AllSameAndDone /\ calls[1].B # <<>>

\* C5: a HashUpload with a namespace that is neither empty nor configured
\* returns ErrInvalidNamespace at once, with no hash and no temp file, and its
\* step leaves files and directories as they were.
C5_InvalidNamespace ==
    [][\A c \in Calls :
         (calls[c].pc = "idle" /\ calls'[c].pc # "idle" /\ InvalidNamespace(calls'[c].ns)) =>
             /\ calls'[c].pc = "done"
             /\ calls'[c].err = ErrInvalidNamespace
             /\ calls'[c].fh = <<>>
             /\ calls'[c].tempFilename = <<>>
             /\ fs' = fs
             /\ dirs' = dirs]_vars

\* a call with an invalid namespace has returned ErrInvalidNamespace
C5_Witness ==
    \E c \in Calls :
        /\ calls[c].pc = "done"
        /\ InvalidNamespace(calls[c].ns)
        /\ calls[c].err = ErrInvalidNamespace

\* C6: once the calls have returned, a file exists at FullFile(ns, h) if and
\* only if some call for a content of hash h in ns returned h with a nil error.
C6_PathIffSuccessfulPublish ==
    (\A c \in Calls : calls[c].pc \in {"idle", "done"}) =>
        \A e \in HashPaths :
            Exists(fs, e.path) <=>
                \E c \in Calls : /\ calls[c].pc = "done"
                                 /\ calls[c].err = "nil"
                                 /\ calls[c].ns = e.ns
                                 /\ calls[c].fh = e.h

\* C7: a call whose body failed after the temp file was created returns through
\* the delete of the temp file, and when the delete succeeds the temp file is
\* gone at the return; a call that succeeds returns without a delete, its temp
\* file having become the destination file.
C7_TempFileCleanup ==
    [][\A c \in Calls :
         (calls[c].pc # "done" /\ calls'[c].pc = "done" /\ calls'[c].tempFilename # <<>>) =>
             /\ calls'[c].err \in BodyErrors =>
                   /\ calls[c].pc = "remove"
                   /\ calls'[c].fErr = "nil" => ~Exists(fs', calls'[c].tempFilename)
             /\ calls'[c].err = "nil" =>
                   /\ calls[c].pc = "close"
                   /\ ~calls'[c].deleteTempFile
                   /\ Exists(fs', FullFile(calls'[c].ns, calls'[c].fh))
                   /\ fs'[FullFile(calls'[c].ns, calls'[c].fh)].data = calls'[c].B]_vars

\* a call has failed in its body, deleted its temp file and returned
C7_Witness ==
    \E c \in Calls :
        /\ calls[c].pc = "done"
        /\ calls[c].err \in BodyErrors
        /\ calls[c].fErr = "nil"
        /\ calls[c].tempFilename # <<>>
        /\ ~Exists(fs, calls[c].tempFilename)

\* C8: in the deferred cleanup of HashUpload an error of the body is never
\* replaced: err changes only when it was nil, and then to the error of the
\* close or of the delete.
C8_FirstFailureWins ==
    [][\A c \in Calls :
         calls[c].pc \in {"close", "remove"} =>
             /\ calls[c].err # "nil" => calls'[c].err = calls[c].err
             /\ calls'[c].err # calls[c].err =>
                   calls'[c].err \in {"close error", "remove error"}]_vars

\* a call whose body failed and whose delete failed too has returned the
\* error of the body
C8_Witness ==
    \E c \in Calls :
        /\ calls[c].pc = "done"
        /\ calls[c].err \in BodyErrors
        /\ calls[c].fErr = "remove error"

\* the declared size of the request exceeds the configured maximum: the
\* Content-Length of a PUT, the size of the form file of a POST
Oversize(r) ==
    \/ r.Method = "PUT" /\ r.ContentLength > MaxFileSize
    \/ r.Method = "POST" /\ r.form = "ok" /\ Len(r.Body) > MaxFileSize

\* a step of a request that leaves files, directories, HashUpload calls and
\* the repository (last file ID, records) as they were
NothingStored == fs' = fs /\ dirs' = dirs /\ calls' = calls /\ repo' = repo

\* C9 as stated: every step of a request whose declared size exceeds
\* MaxFileSize stores nothing, and the request ends with status 413.
C9_OversizeAnswered413 ==
    [][(req.pc \notin {"idle", "done"} /\ Oversize(req)) =>
          /\ NothingStored
          /\ req'.pc = "done" => req'.ur.Code = StatusRequestEntityTooLarge]_vars

\* C9, amended: every step of a request whose declared size exceeds
\* MaxFileSize stores nothing (no file, no directory, no file ID, no record);
\* once the request is in uploadFile it ends there, with status 413 and no file
\* ID; before that, only the folder check of a foldered upload can end it.
C9_OversizeRejected ==
    [][(req.pc \notin {"idle", "done"} /\ Oversize(req)) =>
          /\ NothingStored
          /\ req.pc \in {"folder", "uploadFile"}
          /\ req.pc = "folder" =>
                \/ req'.pc = "uploadFile"
                \/ req'.pc = "done" /\ req'.ur.Code \in {StatusBadRequest,
                                                          StatusInternalServerError}
          /\ req.pc = "uploadFile" =>
                /\ req'.pc = "done"
                /\ req'.ur.Code = StatusRequestEntityTooLarge
                /\ req'.ur.FileID = 0
                /\ req'.ur.Hash = <<>>]_vars

\* a request has been answered 413 and nothing is stored
C9_Witness ==
    /\ req.pc = "done"
    /\ req.ur.Code = StatusRequestEntityTooLarge
    /\ fs = <<>>
    /\ repo = EmptyRepo

\* C10: when createFile asks the repository to persist the record, a file
\* holding the uploaded bytes is at root/ns/<record.Path>; and every record
\* that was persisted has a file at its Path.
C10_FileBeforeRecord ==
    /\ req.pc = "addVfsFile" =>
          /\ Exists(fs, Path(req.ns, VfsFile(req).Path))
          /\ fs[Path(req.ns, VfsFile(req).Path)].data = req.Body
    /\ \A rec \in repo.files : \E ns \in NsInputs : Exists(fs, Path(ns, rec.Path))

\* createFile is about to persist the record of a non-empty upload
C10_Witness == req.pc = "addVfsFile" /\ req.Body # <<>>

\* the final relative path of a foldered upload, written out:
\* <YYYYMM>/<folderID>_<fileID>[_<salt>].<ext>
FinalPaths(folderID, id, ext) ==
    { ym \o <<"/">> \o Itoa(folderID) \o <<"_">> \o Itoa(id) \o salt \o <<".">> \o ext :
        ym \in YearMonths, salt \in Salts }

\* C11: when repo.AddVfsFile fails after Move succeeded, the step changes no
\* file: the uploaded bytes stay at the final path
\* <YYYYMM>/<folderID>_<fileID>[_<salt>].<ext> under root/ns, no file is at the
\* temp path, and the request ends with status 500 and no file identifier.
C11_OrphanAfterFailedInsert ==
    [][(req.pc = "addVfsFile" /\ req'.pc = "done" /\ repo'.files = repo.files) =>
          /\ fs' = fs
          /\ req.path \in FinalPaths(req.fl, req.id, req.ext)
          /\ Exists(fs', Path(req.ns, req.path))
          /\ fs'[Path(req.ns, req.path)].data = req.Body
          /\ ~Exists(fs', Path(req.ns, req.tempFile))
          /\ req'.ur.Code = StatusInternalServerError
          /\ req'.ur.FileID = 0]_vars

\* a foldered upload of a non-empty content has ended with the error of the
\* insert, and a file is stored
C11_Witness ==
    /\ req.pc = "done"
    /\ req.ur.Error = "insert error"
    /\ repo.files = {}
    /\ \E p \in DOMAIN fs : fs[p].data # <<>>

\* C12: a Move(ns, A, B) that was called with a file at A and no directory at
\* B's parent, and returned nil, has created that directory, has left at B a
\* file with the contents A had, has left nothing at A, and has left every
\* other file as it was.
C12_MoveCreatesParent ==
    (/\ mv.pc = "done"
     /\ mv.err = "nil"
     /\ Exists(mv.before, mv.currentPath)
     /\ Dir(mv.newPath) \notin mv.dirsBefore) =>
        /\ Dir(mv.newPath) \in dirs
        /\ Exists(fs, mv.newPath)
        /\ fs[mv.newPath].data = mv.before[mv.currentPath].data
        /\ ~Exists(fs, mv.currentPath)
        /\ \A p \in (DOMAIN fs \cup DOMAIN mv.before) \ {mv.currentPath, mv.newPath} :
              /\ Exists(fs, p)
              /\ Exists(mv.before, p)
              /\ fs[p] = mv.before[p]

\* a Move of a non-empty file into a directory that did not exist has
\* returned nil, with another file in the storage
C12_Witness ==
    /\ mv.pc = "done"
    /\ mv.err = "nil"
    /\ Exists(mv.before, mv.currentPath)
    /\ mv.before[mv.currentPath].data # <<>>
    /\ Dir(mv.newPath) \notin mv.dirsBefore
    /\ Cardinality(DOMAIN fs) = 2

\* C13: any two HashUpload calls that returned nil for the same content, in
\* the same namespace or in two valid ones, returned the same hash, hence the
\* same path FileHash.File() relative to the namespace, and each namespace
\* holds the content at that path.
C13_DeterministicAcrossNamespaces ==
    \A c \in Calls, d \in Calls :
        (/\ calls[c].pc = "done" /\ calls[c].err = "nil"
         /\ calls[d].pc = "done" /\ calls[d].err = "nil"
         /\ calls[c].B = calls[d].B) =>
            /\ calls[c].fh = calls[d].fh
            /\ HashFile(calls[c].fh) = HashFile(calls[d].fh)
            /\ Exists(fs, Path(calls[c].ns, HashFile(calls[d].fh)))
            /\ fs[Path(calls[c].ns, HashFile(calls[d].fh))].data = calls[d].B

\* two calls have returned nil for the same non-empty content in two
\* different namespaces
C13_Witness ==
    \E c \in Calls, d \in Calls :
        /\ calls[c].pc = "done" /\ calls[c].err = "nil"
        /\ calls[d].pc = "done" /\ calls[d].err = "nil"
        /\ calls[c].B = calls[d].B
        /\ calls[c].B # <<>>
        /\ calls[c].ns # calls[d].ns

\* the error classes of an upload outcome, by the error the request ended with
ValidationErrors == {ErrInvalidNamespace, "parse error", "no such file"}
IOErrors == {"temp file error", "sync error", "copy error", "mkdir error", "rename error",
             "create error", "close error", "remove error"}
PersistenceErrors == {"next id error", "insert error"}

\* C14: the status of an upload outcome follows the error class: 200 without
\* an error, 400 for an invalid namespace or a malformed multipart body, 413
\* for a declared size over the maximum, 500 for an I/O failure or a failure
\* of the repository's allocation or insert.
C14_StatusFollowsErrorClass ==
    req.pc = "done" =>
        /\ req.ur.Error = "" => req.ur.Code = StatusOK
        /\ req.ur.Error \in ValidationErrors => req.ur.Code = StatusBadRequest
        /\ req.ur.Error = "file size exceed" => req.ur.Code = StatusRequestEntityTooLarge
        /\ req.ur.Error \in IOErrors \cup PersistenceErrors =>
              req.ur.Code = StatusInternalServerError

\* the empty string and the elements of the configured list
ValidNamespaces == {NamespacePublic} \cup { CfgNamespaces[i] : i \in 1..Len(CfgNamespaces) }

\* C15: the namespace check that opens HashUpload lets the call through if
\* and only if ns is the empty string or an element of Config.Namespaces, and
\* evaluating it changes neither the configuration nor the storage.
C15_IsValidNamespace ==
    [][\A c \in Calls :
         (calls[c].pc = "idle" /\ calls'[c].pc # "idle") =>
             /\ (calls'[c].pc = "tempfile" /\ calls'[c].err = "nil")
                   <=> calls'[c].ns \in ValidNamespaces
             /\ calls'[c].err = ErrInvalidNamespace <=> calls'[c].ns \notin ValidNamespaces
             /\ cfg' = cfg
             /\ fs' = fs
             /\ dirs' = dirs]_vars

\* one call was let through with a configured namespace while another was
\* let through with the public one
C15_Witness ==
    \E c \in Calls, d \in Calls :
        /\ calls[c].pc = "tempfile" /\ calls[c].ns = CfgNamespaces[1]
        /\ calls[d].pc = "tempfile" /\ calls[d].ns = NamespacePublic

\* a valid hash: 32 lowercase hexadecimal characters
HexChars == { HexDigits[k] : k \in 1..Len(HexDigits) }
IsHash(h) ==
    /\ Len(h) = 2 * DigestSize
    /\ \A i \in 1..Len(h) : h[i] \in HexChars

\* hashes beyond those of the uploaded contents: the hexadecimal digits in
\* their order, twice over, starting from each digit
RotatedHashes ==
    { [i \in 1..(2 * DigestSize) |-> HexDigits[((i + k) % Len(HexDigits)) + 1]] :
        k \in 1..Len(HexDigits) }

\* the two equations of the address codec, written out character by character
CodecEquations(h) ==
    /\ HashDir(h) = <<h[1], "/", h[2], h[3]>>
    /\ HashFile(h) = HashDir(h) \o <<"/">> \o h \o <<".">> \o DefaultHashExtension

\* the codec on the rotated hashes
RotatedHashesEncoded == \A h \in RotatedHashes : IsHash(h) /\ CodecEquations(h)

\* C16: for a valid hash h, Dir() is h[0] + "/" + h[1:3] and File() is
\* Dir() + "/" + h + "." + the fixed extension; a HashUpload that returned nil
\* returned a valid hash and the file is at root/<namespace>/<File()>, the
\* namespace segment being absent for the public namespace.
C16_AddressCodec ==
    /\ RotatedHashesEncoded
    /\ \A c \in Calls :
          (calls[c].pc = "done" /\ calls[c].err = "nil") =>
              /\ IsHash(calls[c].fh)
              /\ CodecEquations(calls[c].fh)
              /\ Exists(fs, CfgPath
                             \o (IF calls[c].ns = <<>> THEN <<>> ELSE <<"/">> \o calls[c].ns)
                             \o <<"/">> \o HashFile(calls[c].fh))

\* a call in a configured namespace has returned nil and its file is under
\* the directory of that namespace
C16_Witness ==
    \E c \in Calls :
        /\ calls[c].pc = "done" /\ calls[c].err = "nil"
        /\ calls[c].ns = CfgNamespaces[1]
        /\ Exists(fs, CfgPath \o <<"/">> \o calls[c].ns \o <<"/">> \o HashFile(calls[c].fh))

\* the metadata createFile has in its local variables
Metadata(r) == <<r.params, r.mType, r.fsize>>

\* C17 as stated: the step of createFile that extracts the metadata runs after
\* the identifier was allocated and the file moved, and reads the file at the
\* final path.
C17_MetadataAfterMove ==
    [][(req.pc = "createFile" /\ req'.pc # "createFile") =>
          /\ req.id > 0
          /\ req.path \in FinalPaths(req.fl, req.id, req.ext)
          /\ Exists(fs, Path(req.ns, req.path))]_vars

\* C17, amended: the steps of a foldered upload come in the order Upload,
\* metadata, NextFileID, Move, AddVfsFile.  The metadata are extracted right
\* after Upload returned, before an identifier is allocated and before the
\* move, from the file at the temp path (a size that was obtained is the
\* length of that file); no later step changes them; then the identifier is
\* allocated, then the file moves from the temp path to the final path, and
\* the record that is persisted carries the identifier, the final path and
\* the metadata read before.
C17_MetadataBeforeAllocation ==
    [][/\ (req.pc = "createFile" /\ req'.pc # "createFile") =>
             /\ req.ur.Code = StatusOK
             /\ req.id = 0 /\ req.path = <<>> /\ repo' = repo
             /\ Exists(fs, Path(req.ns, req.tempFile))
             /\ fs[Path(req.ns, req.tempFile)].data = req.Body
             /\ req'.fsize \in {0, Len(fs[Path(req.ns, req.tempFile)].data)}
             /\ req'.pc = "nextFileID"
       /\ (req.pc \in {"nextFileID", "move", "addVfsFile"} /\ req'.pc # "done") =>
             Metadata(req') = Metadata(req)
       /\ (req.pc = "nextFileID" /\ req'.pc # "done") =>
             /\ req'.pc = "move" /\ req'.id = repo'.lastID /\ req'.id > 0
             /\ fs' = fs
       /\ (req.pc = "move" /\ req'.pc # "done") =>
             /\ req'.pc = "addVfsFile"
             /\ req'.path \in FinalPaths(req.fl, req.id, req.ext)
             /\ ~Exists(fs', Path(req.ns, req.tempFile))
             /\ Exists(fs', Path(req.ns, req'.path))
       /\ repo'.files # repo.files =>
             /\ req.pc = "addVfsFile"
             /\ repo'.files = repo.files \cup {VfsFile(req)}
             /\ VfsFile(req).ID = req.id
             /\ VfsFile(req).Path = req.path
             /\ <<VfsFile(req).Params, VfsFile(req).MimeType, VfsFile(req).FileSize>>
                   = Metadata(req)]_vars

\* the metadata of a non-empty upload have been read and no identifier is
\* allocated yet
C17_Witness ==
    /\ req.pc = "nextFileID"
    /\ req.fsize > 0
    /\ req.id = 0
    /\ repo.lastID = 0

\* C18: no FileRecord is persisted without a size obtained from the file: a
\* record that createFile persists has the length of the stored file as its
\* FileSize, whatever became of the image dimensions and of the MIME type;
\* when the size cannot be obtained, record creation is aborted.
C18_SizeMandatory ==
    [][\A rec \in repo'.files \ repo.files :
         /\ Exists(fs, Path(req.ns, rec.Path))
         /\ rec.FileSize = Len(fs[Path(req.ns, rec.Path)].data)]_vars

\* C19: a foldered upload goes on to the upload only when folderId is a number
\* and the lookup returned a folder of the repository.  The folder check
\* itself stores nothing; when it ends the request, the outcome is an error
\* without a file identifier; the outcome "not found" is given exactly for a
\* lookup that succeeded and returned no folder, and differs from the outcome
\* of a failed lookup; and every later step of the request that writes a file
\* or changes the repository belongs to an existing folder.
C19_FolderMustExist ==
    [][/\ req.pc = "folder" =>
             /\ NothingStored
             /\ req'.pc \in {"uploadFile", "done"}
             /\ req'.pc = "uploadFile" =>
                   /\ Atoi(req.folderId) # -1
                   /\ Atoi(req.folderId) \in repo.folders
                   /\ req'.fl = Atoi(req.folderId)
             /\ req'.pc = "done" =>
                   /\ req'.ur.Code \in {StatusBadRequest, StatusInternalServerError}
                   /\ req'.ur.FileID = 0
                   /\ req'.ur.Error \in {"bad folder", "lookup error", "not found"}
                   /\ req'.ur.Error = "not found" =>
                         Atoi(req.folderId) # -1 /\ Atoi(req.folderId) \notin repo.folders
                   /\ (Atoi(req.folderId) # -1 /\ Atoi(req.folderId) \in repo.folders) =>
                         req'.ur.Error = "lookup error"
       /\ (req.handler = "folder" /\ (fs' # fs \/ repo' # repo)) =>
             req.fl \in repo.folders]_vars

\* a foldered upload for an unknown folder has ended as not found, with
\* nothing stored
C19_Witness ==
    /\ req.pc = "done"
    /\ req.ur.Error = "not found"
    /\ req.ur.Code = StatusInternalServerError
    /\ fs = <<>>
    /\ repo = EmptyRepo

\* C20: in a foldered upload an identifier is allocated only once Upload has
\* returned nil (the temp path holds the body, synced); a record is persisted
\* only once an identifier is allocated and Move has put the file at the
\* final path; and when NextFileID or Move fails the request ends with status
\* 500 and no identifier, no record is persisted and the uploaded bytes stay
\* at the temp path.
C20_AllocateAfterUploadPersistLast ==
    [][/\ repo'.lastID # repo.lastID =>
             /\ req.pc = "nextFileID"
             /\ req.ur.Code = StatusOK
             /\ Exists(fs, Path(req.ns, req.tempFile))
             /\ fs[Path(req.ns, req.tempFile)] = [data |-> req.Body, durable |-> req.Body]
       /\ repo'.files # repo.files =>
             /\ req.pc = "addVfsFile"
             /\ req.id > 0 /\ req.id = repo.lastID
             /\ Exists(fs, Path(req.ns, req.path))
             /\ ~Exists(fs, Path(req.ns, req.tempFile))
       /\ (req.pc \in {"nextFileID", "move"} /\ req'.pc = "done") =>
             /\ req'.ur.Code = StatusInternalServerError
             /\ req'.ur.FileID = 0
             /\ repo'.files = repo.files
             /\ fs' = fs
             /\ Exists(fs', Path(req.ns, req.tempFile))
             /\ fs'[Path(req.ns, req.tempFile)].data = req.Body]_vars

\* a foldered upload of a non-empty content has ended with the error of
\* Move's rename: an identifier was allocated, no record is persisted, the
\* bytes are stored
C20_Witness ==
    /\ req.pc = "done"
    /\ req.ur.Code = StatusInternalServerError
    /\ req.ur.Error = "rename error"
    /\ repo.lastID = 1
    /\ repo.files = {}
    /\ \E p \in DOMAIN fs : fs[p].data # <<>>

====
